---- MODULE Spec2Model ----
(***************************************************************************)
(* A model of rent_vs_buy: the scenario objects BuyConfiguration and        *)
(* RentConfiguration (their __post_init__), the cost functions buy and      *)
(* rent, and the helpers of utils.py.                                       *)
(*                                                                         *)
(* Numbers.  The program computes in IEEE doubles.  A double is modelled    *)
(* as a record [k, v]: k = "fin" with v a fixed-point integer, or one of    *)
(* the special values k = "nan", k = "inf" (v = 1 or -1 is the sign).       *)
(* Optional fields that are None are the record with k = "none".            *)
(* Amounts of money are held in cents (scale Cent), rates, factors and      *)
(* years in millionths (scale Micro).  A product or quotient is truncated   *)
(* to the scale of its result, so the model's arithmetic is approximate in  *)
(* the last digit, as the program's is.                                     *)
(***************************************************************************)
EXTENDS Integers, Sequences, FiniteSets, TLC

VARIABLES pc, inp, params, err, out

vars == <<pc, inp, params, err, out>>

---------------------------------------------------------------------------
(* Fixed-point scales and bounds *)

Cent == 10 * 10
Micro == 1000 * 1000

\* Number of terms of the power series that stands for np.exp.
ExpTerms == 12
\* Number of terms of the series that stands for np.log.
LogTerms == 4
\* The longest holding horizon the inputs contain, in years.
MaxYears == 30

Abs(n) == IF n < 0 THEN -n ELSE n
Sgn(n) == IF n < 0 THEN -1 ELSE IF n > 0 THEN 1 ELSE 0

\* The largest power of two B (of those used) with B * c within the integer
\* width: the base in which MulDivNat reads b.
IntMax == 2147483646 + 1
Base(c) ==
    IF c <= IntMax \div 65536 THEN 65536
    ELSE IF c <= IntMax \div 2048 THEN 2048
    ELSE IF c <= IntMax \div 64 THEN 64
    ELSE IF c <= IntMax \div 8 THEN 8
    ELSE 2

\* <<quotient, remainder>> of a * b by c for naturals a, b and c > 0, digit by
\* digit of b, so that no intermediate value exceeds the integer width.
RECURSIVE MulDivNat(_, _, _)
MulDivStep(h, a, d, c) ==
    LET hi == Base(c) * h[2]
        lo == d * (a % c)
        rest == (hi % c) + (lo % c)
    IN  <<(Base(c) * h[1]) + (hi \div c) + (d * (a \div c)) + (lo \div c) + (rest \div c),
          rest % c>>

MulDivNat(a, b, c) ==
    IF b = 0 THEN <<0, 0>>
    ELSE MulDivStep(MulDivNat(a, b \div Base(c), c), a, b % Base(c), c)

\* a * b / c truncated toward zero, c # 0.
MulDiv(a, b, c) == Sgn(a) * Sgn(b) * Sgn(c) * MulDivNat(Abs(a), Abs(b), Abs(c))[1]

---------------------------------------------------------------------------
(* IEEE doubles and None *)

Fin(v) == [k |-> "fin", v |-> v]
NaN == [k |-> "nan", v |-> 0]
Inf(s) == [k |-> "inf", v |-> s]
None == [k |-> "none", v |-> 0]

\* A whole number n as a factor, n dollars as an amount.
Num(n) == Fin(n * Micro)
Dollars(n) == Fin(n * Cent)

IsFinite(a) == a.k = "fin"
FSign(a) == Sgn(a.v)

FNeg(a) == IF a.k = "nan" THEN NaN ELSE [k |-> a.k, v |-> -a.v]

FAdd(a, b) ==
    IF a.k = "nan" \/ b.k = "nan" THEN NaN
    ELSE IF a.k = "inf" /\ b.k = "inf" THEN (IF a.v = b.v THEN a ELSE NaN)
    ELSE IF a.k = "inf" THEN a
    ELSE IF b.k = "inf" THEN b
    ELSE Fin(a.v + b.v)

FSub(a, b) == FAdd(a, FNeg(b))

\* a * b where b is a factor; the result has the scale of a.
FMul(a, b) ==
    IF a.k = "nan" \/ b.k = "nan" THEN NaN
    ELSE IF a.k = "inf" \/ b.k = "inf"
         THEN (IF FSign(a) * FSign(b) = 0 THEN NaN ELSE Inf(FSign(a) * FSign(b)))
    ELSE Fin(MulDiv(a.v, b.v, Micro))

\* a / b where b is a factor; the result has the scale of a.  Division by
\* zero does not raise for numpy doubles: it yields inf, or nan for 0 / 0.
FDiv(a, b) ==
    IF a.k = "nan" \/ b.k = "nan" THEN NaN
    ELSE IF a.k = "inf"
         THEN (IF b.k = "inf" THEN NaN
               ELSE Inf(a.v * (IF b.v < 0 THEN -1 ELSE 1)))
    ELSE IF b.k = "inf" THEN Fin(0)
    ELSE IF b.v = 0 THEN (IF a.v = 0 THEN NaN ELSE Inf(Sgn(a.v)))
    ELSE Fin(MulDiv(a.v, Micro, b.v))

\* a < b; every comparison with nan is false.
FLess(a, b) ==
    IF a.k = "nan" \/ b.k = "nan" THEN FALSE
    ELSE IF a.k = "inf" THEN a.v < 0 /\ ~(b.k = "inf" /\ b.v < 0)
    ELSE IF b.k = "inf" THEN b.v > 0
    ELSE a.v < b.v

\* Python's min(a, b) and max(a, b): b when it compares below (above) a.
PyMin(a, b) == IF FLess(b, a) THEN b ELSE a
PyMax(a, b) == IF FLess(a, b) THEN b ELSE a

\* e^x for a factor x, by its power series.
RECURSIVE ExpSum(_, _, _)
ExpSum(x, term, k) ==
    IF k > ExpTerms THEN 0
    ELSE term + ExpSum(x, (MulDiv(term, x, Micro) \div k), k + 1)

np_exp(a) ==
    IF a.k = "nan" THEN NaN
    ELSE IF a.k = "inf" THEN (IF a.v > 0 THEN a ELSE Fin(0))
    ELSE Fin(ExpSum(a.v, Micro, 1))

\* ln y for a factor y > 0, as 2 * atanh((y - 1) / (y + 1)).
RECURSIVE LogSum(_, _, _)
LogSum(z2, term, k) ==
    IF k >= LogTerms THEN 0
    ELSE (term \div (2 * k + 1)) + LogSum(z2, MulDiv(term, z2, Micro), k + 1)

LogAtanh(z) == Fin(2 * LogSum(MulDiv(z, z, Micro), z, 0))

np_log(a) ==
    IF a.k = "nan" THEN NaN
    ELSE IF a.k = "inf" THEN (IF a.v > 0 THEN a ELSE NaN)
    ELSE IF a.v = 0 THEN Inf(-1)
    ELSE IF a.v < 0 THEN NaN
    ELSE LogAtanh(MulDiv(a.v - Micro, Micro, a.v + Micro))

\* np.round of an amount: to the nearest whole unit, ties to the even one.
np_round(a) ==
    IF a.k # "fin" THEN a
    ELSE LET q == a.v \div Cent
             r == a.v % Cent
         IN  Fin(Cent * (IF 2 * r < Cent THEN q
                         ELSE IF 2 * r > Cent THEN q + 1
                         ELSE IF q % 2 = 0 THEN q ELSE q + 1))

\* base ** n for a whole n >= 1.
RECURSIVE PyPow(_, _)
PyPow(base, n) == IF n <= 1 THEN base ELSE FMul(PyPow(base, n - 1), base)

---------------------------------------------------------------------------
(* utils.py *)

seller_commission(home_price) ==
    LET first_rate == Fin(70000)
        second_rate == Fin(25000)
        threshold == Dollars(100000)
    IN  FAdd(FMul(PyMin(threshold, home_price), first_rate),
             FMul(PyMax(Fin(0), FSub(home_price, threshold)), second_rate))

\* A slip: the buyer commission with the transfer tax's threshold.
buyer_commission_threshold(home_price) ==
    LET first_rate == Fin(31250)
        second_rate == Fin(11625)
        threshold == Dollars(200000)
    IN  FAdd(FMul(PyMin(threshold, home_price), first_rate),
             FMul(PyMax(Fin(0), FSub(home_price, threshold)), second_rate))

buyer_commission(home_price) ==
    LET first_rate == Fin(31250)
        second_rate == Fin(11625)
        threshold == Dollars(100000)
    IN  FAdd(FMul(PyMin(threshold, home_price), first_rate),
             FMul(PyMax(Fin(0), FSub(home_price, threshold)), second_rate))

property_transfer_tax(home_price) ==
    LET first_rate == Fin(10000)
        second_rate == Fin(20000)
        threshold == Dollars(200000)
    IN  FAdd(FMul(PyMin(threshold, home_price), first_rate),
             FMul(PyMax(Fin(0), FSub(home_price, threshold)), second_rate))

continuous_rate(annual_rate, n_compounds) ==
    np_log(PyPow(FAdd(Num(1), FDiv(annual_rate, Num(n_compounds))), n_compounds))

\* cr * np.exp(cr * term) / (np.exp(cr * term) - 1), with grown = np.exp(cr * term)
discount_factor(cr, grown) == FDiv(FMul(cr, grown), FSub(grown, Num(1)))

\* mortgage * discount_factor, given cr
annual_mortgage(mortgage, cr, term) ==
    FMul(mortgage, discount_factor(cr, np_exp(FMul(cr, term))))

\* A slip: the payment is computed for annual, not semi-annual, compounding.
mortgage_payment_annual(mortgage, mortgage_rate, term) ==
    annual_mortgage(mortgage, continuous_rate(mortgage_rate, 1), term)

mortgage_payment(mortgage, mortgage_rate, term) ==
    annual_mortgage(mortgage, continuous_rate(mortgage_rate, 2), term)

\* The interest paid after the (clamped) years.
interest_cost(years, mortgage, cr, annual_payment) ==
    FAdd(FDiv(FMul(FSub(FMul(mortgage, cr), annual_payment),
                   FSub(np_exp(FMul(cr, years)), Num(1))),
              cr),
         FMul(annual_payment, years))

\* principal_balance = mortgage - principal_cost, and the tuple returned
balance_tuple(mortgage, interest, principal_cost) ==
    [interest_cost |-> interest,
     principal_cost |-> principal_cost,
     principal_balance |-> FSub(mortgage, principal_cost)]

\* principal_cost = total_cost - interest_cost
principal_split(mortgage, total_cost, interest) ==
    balance_tuple(mortgage, interest, FSub(total_cost, interest))

\* The body of mortgage_balance after years, cr and annual_payment are set.
balance_at(years, mortgage, cr, annual_payment) ==
    principal_split(mortgage, FMul(annual_payment, years),
                    interest_cost(years, mortgage, cr, annual_payment))

\* A slip: the elapsed years are not clamped to the term.
mortgage_balance_unclamped(years, mortgage, mortgage_rate, term) ==
    balance_at(years, mortgage, continuous_rate(mortgage_rate, 2),
               mortgage_payment(mortgage, mortgage_rate, term))

mortgage_balance(years, mortgage, mortgage_rate, term) ==
    balance_at(PyMin(years, term), mortgage, continuous_rate(mortgage_rate, 2),
               mortgage_payment(mortgage, mortgage_rate, term))

\* recurring_costs / (years * 12) * ((np.exp(roi / 12 * (years * 12)) - 1)
\*                                   / (np.exp(roi / 12) - 1) - years * 12)
recurring_opportunity(recurring_costs, months, monthly) ==
    FMul(FDiv(recurring_costs, months),
         FSub(FDiv(FSub(np_exp(FMul(monthly, months)), Num(1)),
                   FSub(np_exp(monthly), Num(1))),
              months))

\* initial_cost * (np.exp(roi * years) - 1)
initial_opportunity(initial_cost, years, roi) ==
    FMul(initial_cost, FSub(np_exp(FMul(roi, years)), Num(1)))

\* The body of opportunity_cost after roi is set.
opportunity_at(initial_cost, recurring_costs, years, roi) ==
    FAdd(initial_opportunity(initial_cost, years, roi),
         recurring_opportunity(recurring_costs, FMul(years, Num(12)), FDiv(roi, Num(12))))

opportunity_cost(initial_cost, recurring_costs, years, return_on_investment) ==
    opportunity_at(initial_cost, recurring_costs, years,
                   continuous_rate(return_on_investment, 1))

---------------------------------------------------------------------------
(* buy.py *)

\* The property tax rates by city, in percent (as factors).
tax_rates ==
    [c \in {"vancouver", "toronto", "montreal", "kelowna", "victoria", "abbotsford",
            "calgary", "edmonton", "lethbridge", "burlington", "ottawa", "mississauga",
            "waterloo", "kitchener", "hamilton", "guelph", "london", "saint john",
            "fredericton", "saskatoon", "regina", "quebec", "st. jonh's", "halifax",
            "winnipeg"} |->
        CASE c = "vancouver" -> 247000 [] c = "toronto" -> 636000
          [] c = "montreal" -> 767000 [] c = "kelowna" -> 526000
          [] c = "victoria" -> 520000 [] c = "abbotsford" -> 513000
          [] c = "calgary" -> 636000 [] c = "edmonton" -> 869000
          [] c = "lethbridge" -> 1110000 [] c = "burlington" -> 816000
          [] c = "ottawa" -> 1068000 [] c = "mississauga" -> 823000
          [] c = "waterloo" -> 1110000 [] c = "kitchener" -> 1130000
          [] c = "hamilton" -> 1260000 [] c = "guelph" -> 1170000
          [] c = "london" -> 1350000 [] c = "saint john" -> 1790000
          [] c = "fredericton" -> 1420000 [] c = "saskatoon" -> 866000
          [] c = "regina" -> 1070000 [] c = "quebec" -> 878000
          [] c = "st. jonh's" -> 730000 [] c = "halifax" -> 1110000
          [] c = "winnipeg" -> 1250000]

\* str.lower() on the city names the inputs contain.
Lower(s) ==
    CASE s = "Toronto" -> "toronto"
      [] s = "VANCOUVER" -> "vancouver"
      [] s = "Atlantis" -> "atlantis"
      [] OTHER -> s

\* A slip: a city that is not in the table gets Vancouver's rate.
tax_rate_defaulted(city) ==
    IF Lower(city) \in DOMAIN tax_rates THEN Fin(tax_rates[Lower(city)])
    ELSE Fin(tax_rates["vancouver"])

\* tax_rates[self.city.lower()] under the assertion that the city is in the
\* table: None stands for the assertion failing.
tax_rate_for(city) ==
    IF Lower(city) \in DOMAIN tax_rates THEN Fin(tax_rates[Lower(city)]) ELSE None

\* The dataclass fields of BuyConfiguration with their defaults; years and
\* price are required.
BuyConfiguration(years, price) ==
    [years |-> years,
     price |-> price,
     downpayment |-> Num(20),
     mortgage_rate |-> Num(3),
     mortgage_term |-> Num(25),
     appreciation |-> Num(2),
     return_on_investment |-> Num(4),
     inflation |-> Num(2),
     city |-> "vancouver",
     property_tax_rate |-> None,
     maintenance |-> None,
     strata_fee |-> None,
     insurance |-> None,
     utilities |-> Dollars(100)]

\* x *= 0.01 and x *= 12.
Percent(x) == FMul(x, Fin(10000))
Annual(x) == FMul(x, Num(12))

\* BuyConfiguration.__post_init__ on the fields as given: the exception it
\* raises ("none" when it returns) and the object it leaves.
BuyPostInit(self) ==
    IF self.strata_fee.k = "none" THEN
        \* 0.007 * self.home_price: the class has no attribute home_price
        [err |-> "AttributeError", obj |-> None]
    ELSE IF self.insurance.k = "none" THEN
        \* 0.001 * self.home_price
        [err |-> "AttributeError", obj |-> None]
    ELSE IF self.property_tax_rate.k = "none" /\ tax_rate_for(self.city).k = "none" THEN
        [err |-> "AssertionError", obj |-> None]
    ELSE IF self.maintenance.k = "none" THEN
        \* self.maintenance *= 12 with maintenance None
        [err |-> "TypeError", obj |-> None]
    ELSE
        [err |-> "none",
         obj |-> [self EXCEPT
            !.property_tax_rate =
                Percent(IF @.k = "none" THEN tax_rate_for(self.city) ELSE @),
            !.downpayment = Percent(@),
            !.mortgage_rate = Percent(@),
            !.appreciation = Percent(@),
            !.return_on_investment = Percent(@),
            !.inflation = Percent(@),
            !.maintenance = Annual(@),
            !.strata_fee = Annual(@),
            !.insurance = Annual(@),
            !.utilities = Annual(@)]]

\* base * (1 / rate) * (np.exp(rate * years) - np.exp(rate * 0)): the total
\* of a recurring amount that grows at the continuous rate.
stream_total(base, rate, years) ==
    FMul(FMul(base, FDiv(Num(1), rate)),
         FSub(np_exp(FMul(rate, years)), np_exp(FMul(rate, Num(0)))))

\* The initial costs of buy.
buy_initial_sum(down_payment_cost, buyer_commission_cost, property_tax_transfer_cost) ==
    [down_payment_cost |-> down_payment_cost,
     buyer_commission_cost |-> buyer_commission_cost,
     property_tax_transfer_cost |-> property_tax_transfer_cost,
     initial_costs |->
        FAdd(FAdd(down_payment_cost, buyer_commission_cost), property_tax_transfer_cost)]

buy_initial(parameters) ==
    buy_initial_sum(FMul(parameters.price, parameters.downpayment),
                    buyer_commission(parameters.price),
                    property_transfer_tax(parameters.price))

\* The recurring costs of buy.
buy_recurring_sum(tax, maint, ins, util, strata, mort) ==
    [property_tax_total |-> tax,
     maintenance_total |-> maint,
     insurance_total |-> ins,
     utilities_total |-> util,
     strata_fee_total |-> strata,
     mortgage_payment_total |-> mort,
     recurring_costs |->
        FAdd(FAdd(FAdd(FAdd(FAdd(tax, maint), ins), util), strata), mort)]

buy_recurring(parameters, r, i, mb) ==
    buy_recurring_sum(
        stream_total(FMul(parameters.price, parameters.property_tax_rate), r,
                     parameters.years),
        stream_total(parameters.maintenance, r, parameters.years),
        stream_total(parameters.insurance, i, parameters.years),
        stream_total(parameters.utilities, i, parameters.years),
        stream_total(parameters.strata_fee, i, parameters.years),
        FAdd(mb.interest_cost, mb.principal_cost))

\* The proceeds of buy.
buy_proceeds_sum(final_home_price, seller_commission_cost, balance) ==
    [final_home_price |-> final_home_price,
     seller_commission_cost |-> seller_commission_cost,
     balance |-> balance,
     proceeds |-> FSub(FSub(final_home_price, seller_commission_cost), balance)]

buy_sale(final_home_price, balance) ==
    buy_proceeds_sum(final_home_price, seller_commission(final_home_price), balance)

buy_proceeds(parameters, r, mb) ==
    buy_sale(FMul(parameters.price, np_exp(FMul(r, parameters.years))),
             mb.principal_balance)

\* return np.round(net_cost), with the breakdown the report prints
cost_return(breakdown, net_cost) ==
    breakdown @@ [net_cost |-> net_cost, ret |-> np_round(net_cost)]

\* net_cost = initial_costs + recurring_costs + opportunity_cost_total - proceeds
buy_net(ini, rec, opportunity_cost_total, pro) ==
    cost_return(ini @@ rec @@ pro @@ [opportunity_cost_total |-> opportunity_cost_total],
                FSub(FAdd(FAdd(ini.initial_costs, rec.recurring_costs),
                          opportunity_cost_total),
                     pro.proceeds))

buy_opportunity(parameters, ini, rec, pro) ==
    buy_net(ini, rec,
            opportunity_cost(ini.initial_costs, rec.recurring_costs, parameters.years,
                             parameters.return_on_investment),
            pro)

\* The body of buy after r, i and the mortgage balance are set.
buy_mortgaged(parameters, r, i, mb) ==
    buy_opportunity(parameters, buy_initial(parameters),
                    buy_recurring(parameters, r, i, mb),
                    buy_proceeds(parameters, r, mb))

buy_rates(parameters, r, i) ==
    buy_mortgaged(parameters, r, i,
        mortgage_balance(parameters.years,
                         FMul(parameters.price, FSub(Num(1), parameters.downpayment)),
                         parameters.mortgage_rate, parameters.mortgage_term))

buy(parameters) ==
    buy_rates(parameters,
              continuous_rate(parameters.appreciation, 1),
              continuous_rate(parameters.inflation, 1))

---------------------------------------------------------------------------
(* rent.py *)

\* The dataclass fields of RentConfiguration with their defaults; years and
\* rent are required.
RentConfiguration(years, monthly_rent) ==
    [years |-> years,
     rent |-> monthly_rent,
     deposit |-> None,
     rent_increase |-> Num(2),
     insurance |-> Dollars(15),
     return_on_investment |-> Num(4),
     inflation |-> Num(2),
     utilities |-> Dollars(100)]

\* RentConfiguration.__post_init__: it raises nothing.
RentPostInit(self) ==
    [err |-> "none",
     obj |-> [self EXCEPT
        !.deposit = IF @.k = "none" THEN FMul(self.rent, Fin(500000)) ELSE @,
        !.rent_increase = Percent(@),
        !.return_on_investment = Percent(@),
        !.inflation = Percent(@),
        !.rent = Annual(@),
        !.utilities = Annual(@)]]

\* The recurring costs of rent.
rent_recurring_sum(rent_total, insurance_total) ==
    [rent_total |-> rent_total,
     insurance_total |-> insurance_total,
     recurring_costs |-> FAdd(rent_total, insurance_total)]

rent_recurring(parameters, i, r) ==
    rent_recurring_sum(stream_total(parameters.rent, r, parameters.years),
                       stream_total(parameters.insurance, i, parameters.years))

\* net_cost = initial_costs + recurring_costs + opportunity_cost_total - proceeds
rent_net(initial_costs, rec, opportunity_cost_total, proceeds) ==
    cost_return(rec @@ [initial_costs |-> initial_costs,
                        opportunity_cost_total |-> opportunity_cost_total,
                        proceeds |-> proceeds],
                FSub(FAdd(FAdd(initial_costs, rec.recurring_costs), opportunity_cost_total),
                     proceeds))

\* A slip: the deposit is not counted as returned.
rent_opportunity_no_refund(parameters, initial_costs, rec) ==
    rent_net(initial_costs, rec,
             opportunity_cost(initial_costs, rec.recurring_costs, parameters.years,
                              parameters.return_on_investment),
             Fin(0))

\* proceeds = initial_costs
rent_opportunity(parameters, initial_costs, rec) ==
    rent_net(initial_costs, rec,
             opportunity_cost(initial_costs, rec.recurring_costs, parameters.years,
                              parameters.return_on_investment),
             initial_costs)

\* initial_costs = parameters.deposit
rent_rates(parameters, i, r) ==
    rent_opportunity(parameters, parameters.deposit, rent_recurring(parameters, i, r))

rent(parameters) ==
    rent_rates(parameters,
               continuous_rate(parameters.inflation, 1),
               continuous_rate(parameters.rent_increase, 1))

---------------------------------------------------------------------------
(* The calls the model makes: one entry point per behaviour, its arguments
   drawn in the initial state. *)

Horizons == {0, 1, 5, MaxYears}

\* The optional monthly fees of a buy scenario as the caller gives them:
\* <<maintenance, strata_fee, insurance>>.
BuyFees ==
    { <<None, None, None>>,
      <<Dollars(100), None, None>>,
      <<None, Dollars(300), Dollars(50)>>,
      <<Dollars(100), Dollars(300), None>>,
      <<Dollars(100), Dollars(300), Dollars(50)>> }

BuyInputs ==
    { [fn |-> "buy",
       args |-> [BuyConfiguration(Num(y), Dollars(p)) EXCEPT
                    !.appreciation = Num(a),
                    !.inflation = Num(n),
                    !.city = c,
                    !.property_tax_rate = t,
                    !.maintenance = f[1],
                    !.strata_fee = f[2],
                    !.insurance = f[3]]] :
        y \in Horizons, p \in {-100000, 150000, 500000}, a \in {0, 2}, n \in {0, 2},
        c \in {"vancouver", "Toronto", "atlantis"}, t \in {None, Num(1)}, f \in BuyFees }

RentInputs ==
    { [fn |-> "rent",
       args |-> [RentConfiguration(Num(y), Dollars(m)) EXCEPT
                    !.deposit = d,
                    !.rent_increase = Num(g),
                    !.inflation = Num(n),
                    !.insurance = Dollars(s)]] :
        y \in Horizons, m \in {1000, 2000}, d \in {None, Dollars(1500)},
        g \in {0, 2}, n \in {0, 2}, s \in {0, 15} }

MortgageInputs ==
    { [fn |-> "mortgage_balance",
       args |-> [years |-> Num(y), mortgage |-> Dollars(m),
                 mortgage_rate |-> Fin(r), term |-> Num(t)]] :
        y \in {0, 5, 10, 25, 50}, m \in {150000, 250000},
        r \in {0, 22900, 45900}, t \in {0, 10, 25} }

FeePrices == {0, 50000, 100000, 150000, 200000, 250000, 500000}

FeeInputs ==
    { [fn |-> f, args |-> [p |-> Dollars(lo), q |-> Dollars(hi)]] :
        f \in {"seller_commission", "buyer_commission", "property_transfer_tax"},
        lo \in FeePrices, hi \in FeePrices }

Init ==
    /\ pc = "start"
    /\ \/ inp \in BuyInputs
       \/ inp \in RentInputs
       \/ inp \in MortgageInputs
       \/ inp \in FeeInputs
    /\ params = None
    /\ err = "none"
    /\ out = None

\* parameters = BuyConfiguration(...)
NewBuyConfiguration ==
    /\ pc = "start"
    /\ inp.fn = "buy"
    /\ LET made == BuyPostInit(inp.args)
       IN  /\ err' = made.err
           /\ params' = made.obj
           /\ pc' = IF made.err = "none" THEN "constructed" ELSE "raised"
    /\ UNCHANGED <<inp, out>>

\* parameters = RentConfiguration(...)
NewRentConfiguration ==
    /\ pc = "start"
    /\ inp.fn = "rent"
    /\ LET made == RentPostInit(inp.args)
       IN  /\ err' = made.err
           /\ params' = made.obj
           /\ pc' = IF made.err = "none" THEN "constructed" ELSE "raised"
    /\ UNCHANGED <<inp, out>>

\* buy(parameters)
Buy ==
    /\ pc = "constructed"
    /\ inp.fn = "buy"
    /\ out' = buy(params)
    /\ pc' = "returned"
    /\ UNCHANGED <<inp, params, err>>

\* rent(parameters)
Rent ==
    /\ pc = "constructed"
    /\ inp.fn = "rent"
    /\ out' = rent(params)
    /\ pc' = "returned"
    /\ UNCHANGED <<inp, params, err>>

\* mortgage_balance(years, mortgage, mortgage_rate, term)
MortgageBalance ==
    /\ pc = "start"
    /\ inp.fn = "mortgage_balance"
    /\ out' = mortgage_balance(inp.args.years, inp.args.mortgage,
                               inp.args.mortgage_rate, inp.args.term)
    /\ pc' = "returned"
    /\ UNCHANGED <<inp, params, err>>

\* seller_commission at the two prices p and q
SellerCommission ==
    /\ pc = "start"
    /\ inp.fn = "seller_commission"
    /\ out' = [lo |-> seller_commission(inp.args.p), hi |-> seller_commission(inp.args.q)]
    /\ pc' = "returned"
    /\ UNCHANGED <<inp, params, err>>

\* buyer_commission at the two prices p and q
BuyerCommission ==
    /\ pc = "start"
    /\ inp.fn = "buyer_commission"
    /\ out' = [lo |-> buyer_commission(inp.args.p), hi |-> buyer_commission(inp.args.q)]
    /\ pc' = "returned"
    /\ UNCHANGED <<inp, params, err>>

\* property_transfer_tax at the two prices p and q
PropertyTransferTax ==
    /\ pc = "start"
    /\ inp.fn = "property_transfer_tax"
    /\ out' = [lo |-> property_transfer_tax(inp.args.p),
               hi |-> property_transfer_tax(inp.args.q)]
    /\ pc' = "returned"
    /\ UNCHANGED <<inp, params, err>>

Next ==
    \/ NewBuyConfiguration
    \/ NewRentConfiguration
    \/ Buy
    \/ Rent
    \/ MortgageBalance
    \/ SellerCommission
    \/ BuyerCommission
    \/ PropertyTransferTax

Spec == Init /\ [][Next]_vars

---------------------------------------------------------------------------
(* Properties *)

Constructed == pc \in {"constructed", "returned"}
Returned(fn) == pc = "returned" /\ inp.fn = fn

\* |a - b| <= tol for two finite amounts.
Near(a, b, tol) == a.k = "fin" /\ b.k = "fin" /\ Abs(a.v - b.v) <= tol

\* A scenario with a positive horizon and, to buy, a positive price.
PlainScenario ==
    /\ inp.fn \in {"buy", "rent"}
    /\ inp.args.years.v > 0
    /\ inp.fn = "buy" => inp.args.price.v > 0

\* C1: a recurring cost stream whose continuous growth rate is 0 (an
\* appreciation, inflation or rent increase of 0) totals base * horizon, and
\* buy and rent return a finite net cost.  Stated for a positive horizon and
\* price, where nothing but the rate is at its edge.
ClaimC1 ==
    /\ Returned("buy") /\ PlainScenario =>
          /\ params.appreciation = Fin(0) =>
                /\ out.maintenance_total = FMul(params.maintenance, params.years)
                /\ out.property_tax_total =
                      FMul(FMul(params.price, params.property_tax_rate), params.years)
                /\ IsFinite(out.ret)
          /\ params.inflation = Fin(0) =>
                /\ out.insurance_total = FMul(params.insurance, params.years)
                /\ out.utilities_total = FMul(params.utilities, params.years)
                /\ out.strata_fee_total = FMul(params.strata_fee, params.years)
                /\ IsFinite(out.ret)
    /\ Returned("rent") /\ PlainScenario =>
          /\ params.rent_increase = Fin(0) =>
                /\ out.rent_total = FMul(params.rent, params.years)
                /\ IsFinite(out.ret)
          /\ params.inflation = Fin(0) =>
                /\ out.insurance_total = FMul(params.insurance, params.years)
                /\ IsFinite(out.ret)

\* C2: mortgage_balance at elapsed years >= term returns the same triple as
\* at years = term; below the term the elapsed years are used unchanged.
TheoremC2 ==
    Returned("mortgage_balance") =>
        LET a == inp.args
        IN  IF a.years.v >= a.term.v
            THEN out = mortgage_balance(a.term, a.mortgage, a.mortgage_rate, a.term)
            ELSE out = balance_at(a.years, a.mortgage,
                                  continuous_rate(a.mortgage_rate, 2),
                                  mortgage_payment(a.mortgage, a.mortgage_rate, a.term))

WitnessC2 ==
    /\ Returned("mortgage_balance")
    /\ inp.args.years.v > inp.args.term.v
    /\ inp.args.term.v > 0
    /\ IsFinite(out.principal_balance)
    /\ out.interest_cost.v > 0

\* The mortgage inputs of C3: a positive principal, rate and term.
ValidMortgage(a) == a.mortgage.v > 0 /\ a.mortgage_rate.v > 0 /\ a.term.v > 0

\* The distance within which two amounts count as numerically equal: a
\* thousandth of the principal.
Tolerance(a) == a.mortgage.v \div 1000

\* C3: for a valid mortgage at elapsed years >= term, the principal paid is
\* the principal and the balance is zero (numerically), so that the interest
\* paid is annual_payment * term - principal, the annual payment being
\* P * cr * e^(cr*term) / (e^(cr*term) - 1) with cr the continuous rate of
\* semi-annual compounding.
TheoremC3 ==
    Returned("mortgage_balance") /\ ValidMortgage(inp.args)
            /\ inp.args.years.v >= inp.args.term.v =>
        LET a == inp.args
            cr == continuous_rate(a.mortgage_rate, 2)
            grown == np_exp(FMul(cr, a.term))
            payment == FMul(a.mortgage, FDiv(FMul(cr, grown), FSub(grown, Num(1))))
        IN  /\ Near(out.principal_cost, a.mortgage, Tolerance(a))
            /\ Near(out.principal_balance, Fin(0), Tolerance(a))
            /\ Near(out.interest_cost, FSub(FMul(payment, a.term), a.mortgage),
                    Tolerance(a))

WitnessC3 ==
    /\ Returned("mortgage_balance")
    /\ ValidMortgage(inp.args)
    /\ inp.args.years.v > inp.args.term.v
    /\ out.interest_cost.v > Tolerance(inp.args)

\* The inputs C4 calls invalid: a negative price or horizon, a mortgage term
\* that is zero or negative.
InvalidInput ==
    \/ inp.fn = "buy" /\ (inp.args.price.v < 0 \/ inp.args.years.v < 0
                           \/ inp.args.mortgage_term.v <= 0)
    \/ inp.fn = "rent" /\ inp.args.years.v < 0
    \/ inp.fn = "mortgage_balance" /\ (inp.args.term.v <= 0 \/ inp.args.years.v < 0)

\* C4: on invalid numeric input the call fails with a DomainError: buy and
\* rent return no net cost, the mortgage helper no balance.
ClaimC4 ==
    InvalidInput =>
        ~(pc = "returned" /\ err # "DomainError"
            /\ IsFinite(IF inp.fn = "mortgage_balance" THEN out.principal_balance ELSE out.ret))

UnknownCity == inp.fn = "buy" /\ Lower(inp.args.city) \notin DOMAIN tax_rates

ClaimC6 ==
    /\ inp.fn = "buy" /\ Constructed =>
          /\ \A f \in {"downpayment", "mortgage_rate", "appreciation",
                       "return_on_investment", "inflation"} :
                params[f] = Fin(inp.args[f].v \div 100)
          /\ \A f \in {"maintenance", "strata_fee", "insurance", "utilities"} :
                params[f] = Fin(12 * inp.args[f].v)
    /\ inp.fn = "rent" /\ Constructed =>
          /\ \A f \in {"rent_increase", "return_on_investment", "inflation"} :
                params[f] = Fin(inp.args[f].v \div 100)
          /\ \A f \in {"rent", "insurance", "utilities"} :
                params[f] = Fin(12 * inp.args[f].v)

\* C7: a BuyConfiguration built from years and price alone is constructed and
\* carries the defaults: strata fee 0.7% and insurance 0.1% of the price a
\* year, utilities of 1200 a year, a 20% down payment, Vancouver's tax rate.
ClaimC7 ==
    inp.fn = "buy" /\ inp.args = BuyConfiguration(inp.args.years, inp.args.price)
            /\ PlainScenario /\ pc # "start" =>
        /\ Constructed
        /\ params.strata_fee = Fin((7 * inp.args.price.v) \div 1000)
        /\ params.insurance = Fin(inp.args.price.v \div 1000)
        /\ params.utilities = Dollars(1200)
        /\ params.downpayment = Fin(200000)
        /\ params.property_tax_rate = Fin(2470)

\* fee * den = n1 * min(threshold, price) + n2 * max(0, price - threshold), the
\* fee in cents and the price and threshold in dollars.
Brackets(fee, den, n1, n2, threshold, price) ==
    /\ fee.k = "fin"
    /\ fee.v * den =
         (n1 * (IF price.v \div Cent < threshold THEN price.v \div Cent ELSE threshold))
         + (n2 * (IF price.v \div Cent > threshold THEN (price.v \div Cent) - threshold ELSE 0))

\* lo and hi, the fees (in cents) at prices p <= q, are in order and no
\* further apart than the higher rate, n / d cents a dollar, allows: no jump.
NoJump(lo, hi, p, q, n, d) ==
    p.v <= q.v => lo.v <= hi.v /\ (hi.v - lo.v) * d <= n * ((q.v - p.v) \div Cent)

\* C8: each fee is rate1 * min(threshold, price) + rate2 * max(0, price -
\* threshold) with its own rates and threshold, equals rate1 * threshold at the
\* threshold, and is non-decreasing in the price, without a jump.
TheoremC8 ==
    /\ Returned("buyer_commission") =>
          /\ Brackets(out.lo, 80, 250, 93, 100000, inp.args.p)
          /\ Brackets(out.hi, 80, 250, 93, 100000, inp.args.q)
          /\ inp.args.p = Dollars(100000) => out.lo = Dollars(3125)
          /\ NoJump(out.lo, out.hi, inp.args.p, inp.args.q, 250, 80)
    /\ Returned("seller_commission") =>
          /\ Brackets(out.lo, 2, 14, 5, 100000, inp.args.p)
          /\ Brackets(out.hi, 2, 14, 5, 100000, inp.args.q)
          /\ inp.args.p = Dollars(100000) => out.lo = Dollars(7000)
          /\ NoJump(out.lo, out.hi, inp.args.p, inp.args.q, 7, 1)
    /\ Returned("property_transfer_tax") =>
          /\ Brackets(out.lo, 1, 1, 2, 200000, inp.args.p)
          /\ Brackets(out.hi, 1, 1, 2, 200000, inp.args.q)
          /\ inp.args.p = Dollars(200000) => out.lo = Dollars(2000)
          /\ NoJump(out.lo, out.hi, inp.args.p, inp.args.q, 2, 1)

WitnessC8 ==
    /\ Returned("buyer_commission")
    /\ inp.args.p = Dollars(100000)
    /\ inp.args.q = Dollars(150000)
    /\ out.lo.v < out.hi.v

\* C9: buy returns initial + recurring + opportunity - proceeds rounded to
\* the nearest whole unit: a whole amount within 0.5 of the net cost, with the
\* initial costs, mortgage payments and proceeds composed as stated; rent
\* rounds the same way.  Stated for a positive horizon and price.
ClaimC9 ==
    /\ Returned("buy") /\ PlainScenario =>
          /\ IsFinite(out.ret) /\ out.ret.v % Cent = 0
          /\ Near(out.ret, out.net_cost, Cent \div 2)
          /\ out.net_cost =
                FSub(FAdd(FAdd(out.initial_costs, out.recurring_costs),
                          out.opportunity_cost_total), out.proceeds)
          /\ out.initial_costs =
                FAdd(FAdd(FMul(params.price, params.downpayment),
                          buyer_commission(params.price)),
                     property_transfer_tax(params.price))
          /\ out.proceeds =
                FSub(FSub(out.final_home_price, seller_commission(out.final_home_price)),
                     out.balance)
    /\ Returned("rent") /\ PlainScenario =>
          /\ IsFinite(out.ret) /\ out.ret.v % Cent = 0
          /\ Near(out.ret, out.net_cost, Cent \div 2)

\* C10: in rent the proceeds are the initial costs, which are the deposit,
\* so the net cost before rounding is recurring costs + opportunity cost, the
\* recurring costs being the rent total + the insurance total.
TheoremC10 ==
    Returned("rent") =>
        /\ out.initial_costs = params.deposit
        /\ out.proceeds = out.initial_costs
        /\ out.recurring_costs = FAdd(out.rent_total, out.insurance_total)
        /\ out.net_cost = FAdd(out.recurring_costs, out.opportunity_cost_total)

WitnessC10 ==
    /\ Returned("rent")
    /\ out.initial_costs.v > 0
    /\ IsFinite(out.net_cost)
    /\ out.net_cost.v > 0

\* Equality of two floats as the program compares them: nan equals nothing.
FloatEq(a, b) == a.k # "nan" /\ b.k # "nan" /\ a = b

\* C11: mortgage_balance splits what has been paid consistently: interest_cost
\* + principal_cost is annual_payment * min(years, term), the payment being
\* mortgage_payment of the same principal, rate and term, and principal_cost +
\* principal_balance is the principal.  Stated for a positive principal and
\* term, every rate and every elapsed time.
ClaimC11 ==
    Returned("mortgage_balance") /\ inp.args.mortgage.v > 0 /\ inp.args.term.v > 0 =>
        LET a == inp.args
        IN  /\ FloatEq(FAdd(out.interest_cost, out.principal_cost),
                       FMul(mortgage_payment(a.mortgage, a.mortgage_rate, a.term),
                            PyMin(a.years, a.term)))
            /\ FloatEq(FAdd(out.principal_cost, out.principal_balance), a.mortgage)

\* The growth rates of a scenario are all non-zero.
GrowingRates ==
    /\ inp.fn = "buy" => inp.args.appreciation.v # 0 /\ inp.args.inflation.v # 0
    /\ inp.fn = "rent" => inp.args.rent_increase.v # 0 /\ inp.args.inflation.v # 0

\* C12: for every non-negative horizon, a horizon of 0 years included, the
\* opportunity cost is well defined and buy and rent return a finite net
\* cost.  Stated for a positive price and non-zero growth rates, where nothing
\* but the horizon is at its edge.
ClaimC12 ==
    pc = "returned" /\ inp.fn \in {"buy", "rent"} /\ inp.args.years.v >= 0
            /\ (inp.fn = "buy" => inp.args.price.v > 0) /\ GrowingRates =>
        IsFinite(out.opportunity_cost_total) /\ IsFinite(out.ret)

====
